---- MODULE Spec2Model ----
(***************************************************************************)
(* Model of newsletter.py, the Madison Safety Newsletter generator:        *)
(* the main() pipeline, the crime categorizer, the statistics aggregator,  *)
(* the narrative generator with its fallback, and the template renderer.   *)
(* Python str values are TLA+ strings; Len, \o and SubSeq act on them      *)
(* character by character.                                                 *)
(***************************************************************************)
EXTENDS Integers, Sequences, FiniteSets, TLC

VARIABLES
    pc,                 \* position of the running entry point
    api_key,            \* os.environ.get('ANTHROPIC_API_KEY')
    arrests_pdf,        \* result of download_pdf(ARRESTS_PDF_URL)
    arrests,            \* list of arrest dicts
    incidents,          \* list of incident dicts
    offender_count,     \* result of get_offender_count
    sex_offender_data,  \* dict built in main / passed to generate_dashboard
    prompt,             \* figures embedded in the narrative prompt
    analysis,           \* narrative text returned by analyze_crime_data
    stats,              \* dict returned by calculate_stats
    html,               \* document handed to f.write
    output,             \* content of the output file (None until written)
    exit_code,          \* process exit status (None while running)
    net,                \* network requests issued so far, in order
    trace,              \* pipeline stages executed so far, in order
    failures,           \* stages whose external dependency failed in this run
    template,           \* content read from template_path (None if unreadable)
    reply,              \* text returned by the narrative service (None if it failed)
    today,              \* datetime.now() at rendering time
    charge,             \* argument of a direct categorize_crime call
    category,           \* its return value
    tbl_kind,           \* which table generator is exercised directly
    tbl_in,             \* its argument
    tbl_out             \* its return value

vars == <<pc, api_key, arrests_pdf, arrests, incidents, offender_count,
          sex_offender_data, prompt, analysis, stats, html, output, exit_code,
          net, trace, failures, template, reply, today,
          charge, category, tbl_kind, tbl_in, tbl_out>>

mainVars == <<pc, api_key, arrests_pdf, arrests, incidents, offender_count,
              sex_offender_data, prompt, analysis, stats, html, output,
              exit_code, net, trace, failures, template, reply, today>>
catVars == <<charge, category>>
tblVars == <<tbl_kind, tbl_in, tbl_out>>

-----------------------------------------------------------------------------
(* Bounds of the model.                                                    *)

MaxArrests == 1
MaxIncidents == 1
MaxCount == 1
MaxDashArrests == 2
MaxPieces == 2
MaxRows == 11

-----------------------------------------------------------------------------
(* Python values: None, int, str; truthiness and the `or` operator.        *)

None == [t |-> "None"]
PyInt(n) == [t |-> "int", v |-> n]
PyStr(s) == [t |-> "str", v |-> s]

Truthy(x) ==
    CASE x.t = "None" -> FALSE
      [] x.t = "int" -> x.v # 0
      [] x.t = "str" -> x.v # ""

(* Variant: the left operand is used whatever its truth value.             *)
PyOrFirst(a, b) == a

PyOr(a, b) == IF Truthy(a) THEN a ELSE b

(* Variant: a length of zero is reported as zero.                          *)
LenOrNoFallback(n, fallback) == n

LenOr(n, fallback) == IF n # 0 THEN n ELSE fallback

Get(d, k, default) == IF k \in DOMAIN d THEN d[k] ELSE default

SetItem(d, k, x) ==
    [j \in DOMAIN d \cup {k} |-> IF j = k THEN x ELSE d[j]]

Min(S) == CHOOSE x \in S : \A y \in S : x <= y

Take(s, n) == SubSeq(s, 1, IF Len(s) < n THEN Len(s) ELSE n)

-----------------------------------------------------------------------------
(* Python str operations.                                                  *)

Occurrences(s, p) ==
    {i \in 1..(Len(s) - Len(p) + 1) : SubSeq(s, i, i + Len(p) - 1) = p}

Contains(s, p) == Occurrences(s, p) # {}

RECURSIVE ReplaceFrom(_, _, _, _)
ReplaceFrom(s, p, v, from) ==
    LET hits == {i \in Occurrences(s, p) : i >= from}
    IN  IF hits = {}
        THEN SubSeq(s, from, Len(s))
        ELSE LET i == Min(hits)
             IN  SubSeq(s, from, i - 1) \o v \o ReplaceFrom(s, p, v, i + Len(p))

Replace(s, p, v) == ReplaceFrom(s, p, v, 1)

UpperToLower ==
    [A |-> "a", B |-> "b", C |-> "c", D |-> "d", E |-> "e", F |-> "f",
     G |-> "g", H |-> "h", I |-> "i", J |-> "j", K |-> "k", L |-> "l",
     M |-> "m", N |-> "n", O |-> "o", P |-> "p", Q |-> "q", R |-> "r",
     S |-> "s", T |-> "t", U |-> "u", V |-> "v", W |-> "w", X |-> "x",
     Y |-> "y", Z |-> "z"]

RECURSIVE Lower(_)
Lower(s) ==
    IF s = "" THEN ""
    ELSE LET c == Head(s)
         IN  (IF c \in DOMAIN UpperToLower THEN UpperToLower[c] ELSE c)
                 \o Lower(Tail(s))

Digit(d) == SubSeq("0123456789", d + 1, d + 1)

RECURSIVE StrInt(_)
StrInt(n) == IF n < 10 THEN Digit(n) ELSE StrInt(n \div 10) \o Digit(n % 10)

-----------------------------------------------------------------------------
(* MadisonDataScraper.categorize_crime                                     *)

violent_keywords ==
    <<"assault", "battery", "domestic", "violence", "rape",
      "murder", "homicide", "robbery", "weapon">>

property_keywords ==
    <<"theft", "burglary", "fraud", "forgery", "trespass",
      "vandalism", "arson", "shoplifting">>

AnyIn(keywords, s) == \E i \in DOMAIN keywords : Contains(s, keywords[i])

(* Variant: the property keywords are tested first.                        *)
categorize_property_first(charge_or_type) ==
    LET c == Lower(charge_or_type)
    IN  IF AnyIn(property_keywords, c) THEN "property"
        ELSE IF AnyIn(violent_keywords, c) THEN "violent"
        ELSE "other"

categorize_crime(charge_or_type) ==
    LET c == Lower(charge_or_type)
    IN  IF AnyIn(violent_keywords, c) THEN "violent"
        ELSE IF AnyIn(property_keywords, c) THEN "property"
        ELSE "other"

(* Direct calls of categorize_crime on charge strings assembled from       *)
(* fragments: keywords in several cases, broken keywords, and filler.      *)

Pieces ==
    {"Assault", "THEFT", "arson", "RoBBery", "thef", "t", " ", "DUI",
     "rape", "g", "Fraud", "weap on"}

RECURSIVE Charges(_)
Charges(n) ==
    IF n = 0 THEN {""}
    ELSE Charges(n - 1) \cup {c \o p : c \in Charges(n - 1), p \in Pieces}

CatInit ==
    /\ charge \in Charges(MaxPieces)
    /\ category = "unset"

CatCall ==
    /\ category = "unset"
    /\ category' = categorize_crime(charge)
    /\ UNCHANGED charge

-----------------------------------------------------------------------------
(* DashboardGenerator: narrative, statistics, tables.                      *)

POPULATION == 56000

Pad3(n) == Digit(n \div 100) \o Digit((n \div 10) % 10) \o Digit(n % 10)

RECURSIVE Commas(_)
Commas(n) ==
    IF n < 1000 THEN StrInt(n) ELSE Commas(n \div 1000) \o "," \o Pad3(n % 1000)

fallback_analysis(n_incidents, violent) ==
    "\nCARD 1: Safe to Walk Around\n"
    \o "Zero stranger violence this week. All " \o StrInt(violent)
    \o " violent incidents were domestic situations in private homes."
    \o " No random attacks or public safety threats.\n"
    \o "\nCARD 2: No Crime Hot Spots  \n"
    \o "Incidents distributed across different areas with no single location"
    \o " experiencing repeat activity. No dangerous neighborhoods.\n"
    \o "\nCARD 3: Nothing Left Unresolved\n"
    \o "All reported incidents resolved within 48 hours."
    \o " Strong police response time with no active threats.\n"
    \o "\nCARD 4: Normal City Activity\n"
    \o "With " \o StrInt(n_incidents) \o " incidents for a population of "
    \o Commas(POPULATION)
    \o ", this is typical suburban activity. Most occurred in commercial areas.\n"
    \o "\nSUMMARY: Should you be worried? No. Madison shows low-level, isolated"
    \o " incidents with no concerning trends."
    \o " This is what a safe, well-policed city looks like.\n"

(* The data summary analyze_crime_data embeds in the prompt it sends.      *)
build_prompt(arr, inc) ==
    LET IsViolent(a) == Contains(Get(a, "category", ""), "violent")
        IsProperty(a) == Contains(Get(a, "category", ""), "property")
    IN  [total_incidents |-> IF Len(inc) # 0 THEN Len(inc) ELSE 12,
         total_arrests |-> Len(arr),
         violent_count |-> Cardinality({i \in DOMAIN arr : IsViolent(arr[i])}),
         property_count |-> Cardinality({i \in DOMAIN arr : IsProperty(arr[i])}),
         population |-> POPULATION,
         recent |-> Take(arr, 5)]

(* service_reply is the text of the service's message, None when the call  *)
(* raised.                                                                 *)
analyze_crime_data(arr, inc, service_reply) ==
    LET p == build_prompt(arr, inc)
    IN  IF service_reply = None
        THEN fallback_analysis(p.total_incidents, p.violent_count)
        ELSE service_reply.v

calculate_stats(crime_data) ==
    LET arr == Get(crime_data, "arrests", <<>>)
        inc == Get(crime_data, "incidents", <<>>)
        IsViolent(a) == categorize_crime(Get(a, "charge", "")) = "violent"
        IsProperty(a) == categorize_crime(Get(a, "charge", "")) = "property"
    IN  [total_incidents |-> LenOr(Len(inc), 12),
         total_arrests |-> LenOr(Len(arr), 5),
         violent_crime |-> Cardinality({i \in DOMAIN arr : IsViolent(arr[i])}),
         property_crime |-> Cardinality({i \in DOMAIN arr : IsProperty(arr[i])}),
         change_percent |-> "8"]

format_analysis_html(analysis_text) ==
    "<div class='analysis'>" \o analysis_text \o "</div>"

incident_row(inc) ==
    "\n            <tr>\n"
    \o "                <td>" \o Get(inc, "date", "N/A") \o "</td>\n"
    \o "                <td>" \o Get(inc, "type", "N/A") \o "</td>\n"
    \o "                <td>" \o Get(inc, "location", "N/A") \o "</td>\n"
    \o "                <td><span class=\"badge badge-yellow\">Investigating</span></td>\n"
    \o "            </tr>\n            "

arrest_row(arrest) ==
    "\n            <tr>\n"
    \o "                <td>" \o Get(arrest, "date", "N/A") \o "</td>\n"
    \o "                <td>" \o Get(arrest, "name", "N/A") \o "</td>\n"
    \o "                <td>" \o Get(arrest, "city", "N/A") \o "</td>\n"
    \o "                <td>" \o Get(arrest, "charge", "N/A") \o "</td>\n"
    \o "            </tr>\n            "

TableLimit == 10

RECURSIVE IncidentRows(_, _)
IncidentRows(seq, i) ==
    IF i > Len(seq) THEN "" ELSE incident_row(seq[i]) \o IncidentRows(seq, i + 1)

RECURSIVE ArrestRows(_, _)
ArrestRows(seq, i) ==
    IF i > Len(seq) THEN "" ELSE arrest_row(seq[i]) \o ArrestRows(seq, i + 1)

generate_incidents_table(inc) ==
    IF Len(inc) = 0
    THEN "<tr><td colspan='4'>No incidents data available</td></tr>"
    ELSE IncidentRows(Take(inc, TableLimit), 1)

(* Variant: the slice [:10] is missing.                                    *)
generate_arrests_table_all(arr) ==
    IF Len(arr) = 0
    THEN "<tr><td colspan='4'>No arrest data available</td></tr>"
    ELSE ArrestRows(arr, 1)

generate_arrests_table(arr) ==
    IF Len(arr) = 0
    THEN "<tr><td colspan='4'>No arrest data available</td></tr>"
    ELSE ArrestRows(Take(arr, TableLimit), 1)

MonthNames ==
    <<"January", "February", "March", "April", "May", "June", "July",
      "August", "September", "October", "November", "December">>

Pad2(n) == Digit(n \div 10) \o Digit(n % 10)

(* datetime.strftime('%B %d, %Y')                                          *)
strftime(now) ==
    MonthNames[now.month] \o " " \o Pad2(now.day) \o ", " \o StrInt(now.year)

(* str() of a Python value.                                                *)
PyStrOf(x) ==
    CASE x.t = "None" -> "None"
      [] x.t = "int" -> StrInt(x.v)
      [] x.t = "str" -> x.v

(* The placeholder replacements of generate_dashboard, in source order.    *)
render(tpl, st, sod, analysis_text, crime_data, now) ==
    LET h1 == Replace(tpl, "{{DATE}}", strftime(now))
        h2 == Replace(h1, "{{TOTAL_INCIDENTS}}", StrInt(st.total_incidents))
        h3 == Replace(h2, "{{TOTAL_ARRESTS}}", StrInt(st.total_arrests))
        h4 == Replace(h3, "{{PROPERTY_CRIME}}", StrInt(st.property_crime))
        h5 == Replace(h4, "{{VIOLENT_CRIME}}", StrInt(st.violent_crime))
        h6 == Replace(h5, "{{CHANGE_PERCENT}}", st.change_percent)
        h7 == Replace(h6, "{{SEX_OFFENDER_COUNT}}",
                      PyStrOf(Get(sod, "total", PyInt(23))))
        h8 == Replace(h7, "{{BOTTOM_LINE_ANALYSIS}}",
                      format_analysis_html(analysis_text))
        h9 == Replace(h8, "{{INCIDENTS_TABLE}}",
                      generate_incidents_table(Get(crime_data, "incidents", <<>>)))
    IN  Replace(h9, "{{ARRESTS_TABLE}}",
                generate_arrests_table(Get(crime_data, "arrests", <<>>)))

-----------------------------------------------------------------------------
(* The environment of a run.                                               *)

Template1 ==
    "<h1>Madison, {{DATE}}</h1>"
    \o "<p id='inc'>{{TOTAL_INCIDENTS}}</p><p id='arr'>{{TOTAL_ARRESTS}}</p>"
    \o "<p id='prop'>{{PROPERTY_CRIME}}</p><p id='viol'>{{VIOLENT_CRIME}}</p>"
    \o "<p id='chg'>{{CHANGE_PERCENT}}%</p><p id='so'>{{SEX_OFFENDER_COUNT}}</p>"
    \o "{{BOTTOM_LINE_ANALYSIS}}"
    \o "<table id='it'>{{INCIDENTS_TABLE}}</table>"
    \o "<table id='at'>{{ARRESTS_TABLE}}</table>"

Template2 ==
    "<table id='at'>{{ARRESTS_TABLE}}</table>"
    \o "<table id='it'>{{INCIDENTS_TABLE}}</table>"
    \o "{{BOTTOM_LINE_ANALYSIS}}"
    \o "<p id='so'>{{SEX_OFFENDER_COUNT}}</p><p id='chg'>{{CHANGE_PERCENT}}</p>"
    \o "<p id='viol'>{{VIOLENT_CRIME}}</p><p id='prop'>{{PROPERTY_CRIME}}</p>"
    \o "<p id='arr'>{{TOTAL_ARRESTS}}</p><p id='inc'>{{TOTAL_INCIDENTS}}</p>"
    \o "<i>{{DATE}}</i>"

Templates == {Template1, Template2}

Placeholders ==
    <<"{{DATE}}", "{{TOTAL_INCIDENTS}}", "{{TOTAL_ARRESTS}}",
      "{{PROPERTY_CRIME}}", "{{VIOLENT_CRIME}}", "{{CHANGE_PERCENT}}",
      "{{SEX_OFFENDER_COUNT}}", "{{BOTTOM_LINE_ANALYSIS}}",
      "{{INCIDENTS_TABLE}}", "{{ARRESTS_TABLE}}">>

Dates == {[year |-> 2025, month |-> 3, day |-> 7]}

(* Texts the narrative service may return; None is a failed call.          *)
Replies ==
    {None,
     PyStr("Should you be worried? No."),
     PyStr("Arrests this week: {{TOTAL_ARRESTS}}. See {{ARRESTS_TABLE}}")}

(* Records as parse_arrests_pdf builds them: the lazy name group takes one *)
(* word, the city group the next, the charge the remainder of the line.    *)
ParsedArrests ==
    {[date |-> "3/1", name |-> "JOHN", city |-> "DOE",
      charge |-> "Madison Burglary 3rd"],
     [date |-> "3/2", name |-> "JANE", city |-> "ROE",
      charge |-> "Huntsville DOMESTIC VIOLENCE 3RD"],
     [date |-> "3/3", name |-> "SAM", city |-> "POE",
      charge |-> "Madison DUI"]}

(* Stubs as parse_incidents_pdf builds them.                               *)
IncidentStubs ==
    {[raw |-> "3/4 Theft Hwy 72 Open", parsed |-> FALSE],
     [raw |-> "03/05 Assault Main St Closed", parsed |-> FALSE]}

RECURSIVE Lists(_, _)
Lists(S, n) ==
    IF n = 0 THEN {<<>>}
    ELSE Lists(S, n - 1) \cup {Append(l, x) : l \in Lists(S, n - 1), x \in S}

-----------------------------------------------------------------------------
(* main(): one action per pipeline step.                                   *)

NoDict == <<>>

catIdle == charge = "" /\ category = "idle"
tblIdle == tbl_kind = "idle" /\ tbl_in = <<>> /\ tbl_out = ""

Init ==
    /\ pc = "start"
    /\ api_key \in {None, PyStr(""), PyStr("sk-ant-test")}
    /\ arrests_pdf = None
    /\ arrests = <<>>
    /\ incidents = <<>>
    /\ offender_count = None
    /\ sex_offender_data = NoDict
    /\ prompt = None
    /\ analysis = ""
    /\ stats = None
    /\ html = ""
    /\ output = None
    /\ exit_code = None
    /\ net = <<>>
    /\ trace = <<>>
    /\ failures = {}
    /\ template = None
    /\ reply = None
    /\ today = None
    /\ catIdle
    /\ tblIdle

(* An exception no handler catches ends the interpreter with status 1.     *)
Uncaught ==
    /\ pc' = "exited"
    /\ exit_code' = PyInt(1)

(* Variant: the credential is not checked.                                 *)
StartNoCheck ==
    /\ pc = "start"
    /\ pc' = "download"
    /\ UNCHANGED <<api_key, arrests_pdf, arrests, incidents, offender_count,
                   sex_offender_data, prompt, analysis, stats, html, output,
                   exit_code, net, trace, failures, template, reply, today>>
    /\ UNCHANGED <<catVars, tblVars>>

(* Lines 365-368: the credential check.                                    *)
Start ==
    /\ pc = "start"
    /\ IF ~Truthy(api_key)
       THEN pc' = "exited" /\ exit_code' = PyInt(1)
       ELSE pc' = "download" /\ UNCHANGED exit_code
    /\ UNCHANGED <<api_key, arrests_pdf, arrests, incidents, offender_count,
                   sex_offender_data, prompt, analysis, stats, html, output,
                   net, trace, failures, template, reply, today>>
    /\ UNCHANGED <<catVars, tblVars>>

(* Variant: download_pdf lets the exception of a failed request escape.    *)
DownloadUncaught ==
    /\ pc = "download"
    /\ \E ok \in BOOLEAN :
        /\ arrests_pdf' = IF ok THEN PyStr("/tmp/madison_arrests.pdf") ELSE None
        /\ failures' = IF ok THEN failures ELSE failures \cup {"fetch"}
        /\ IF ok THEN pc' = "parse" /\ UNCHANGED exit_code ELSE Uncaught
    /\ net' = Append(net, "GET arrests pdf")
    /\ trace' = Append(trace, "fetcher")
    /\ arrests' = <<>>
    /\ UNCHANGED <<api_key, incidents, offender_count, sex_offender_data,
                   prompt, analysis, stats, html, output,
                   template, reply, today>>
    /\ UNCHANGED <<catVars, tblVars>>

(* Lines 375-381: download_pdf(ARRESTS_PDF_URL); any exception is caught   *)
(* inside download_pdf and becomes None.                                   *)
Download ==
    /\ pc = "download"
    /\ \E ok \in BOOLEAN :
        /\ arrests_pdf' = IF ok THEN PyStr("/tmp/madison_arrests.pdf") ELSE None
        /\ failures' = IF ok THEN failures ELSE failures \cup {"fetch"}
        /\ pc' = IF ok THEN "parse" ELSE "scrape"
    /\ net' = Append(net, "GET arrests pdf")
    /\ trace' = Append(trace, "fetcher")
    /\ arrests' = <<>>
    /\ UNCHANGED <<api_key, incidents, offender_count, sex_offender_data,
                   prompt, analysis, stats, html, output, exit_code,
                   template, reply, today>>
    /\ UNCHANGED <<catVars, tblVars>>

(* Line 378: parse_arrests_pdf; an exception is caught inside and the      *)
(* records appended before it are returned.                                *)
ParseArrests ==
    /\ pc = "parse"
    /\ \E ok \in BOOLEAN, found \in Lists(ParsedArrests, MaxArrests) :
        /\ arrests' = found
        /\ failures' = IF ok THEN failures ELSE failures \cup {"extract"}
    /\ trace' = Append(trace, "arrest_extractor")
    /\ pc' = "scrape"
    /\ UNCHANGED <<api_key, arrests_pdf, incidents, offender_count,
                   sex_offender_data, prompt, analysis, stats, html, output,
                   exit_code, net, template, reply, today>>
    /\ UNCHANGED <<catVars, tblVars>>

(* Line 384: scrape_incidents.  The page request may raise; the page may   *)
(* link no incident PDF; the PDF download may fail; the PDF parse may      *)
(* raise part-way.  Every exception is caught inside.                      *)
ScrapeIncidents ==
    /\ pc = "scrape"
    /\ \E how \in {"page_error", "no_link", "pdf_error", "parse_error", "parsed"},
          found \in Lists(IncidentStubs, MaxIncidents) :
        /\ incidents' = IF how \in {"parse_error", "parsed"} THEN found ELSE <<>>
        /\ net' = IF how \in {"page_error", "no_link"}
                  THEN Append(net, "GET police page")
                  ELSE net \o <<"GET police page", "GET incident pdf">>
        /\ failures' = IF how \in {"page_error", "pdf_error", "parse_error"}
                       THEN failures \cup {"scrape"}
                       ELSE failures
    /\ trace' = Append(trace, "incident_extractor")
    /\ pc' = "categorize"
    /\ UNCHANGED <<api_key, arrests_pdf, arrests, offender_count,
                   sex_offender_data, prompt, analysis, stats, html, output,
                   exit_code, template, reply, today>>
    /\ UNCHANGED <<catVars, tblVars>>

(* Lines 388-389: every arrest gets its category.                          *)
Categorize ==
    /\ pc = "categorize"
    /\ arrests' = [i \in DOMAIN arrests |->
                     SetItem(arrests[i], "category",
                             categorize_crime(Get(arrests[i], "charge", "")))]
    /\ trace' = Append(trace, "categorizer")
    /\ pc' = "registry"
    /\ UNCHANGED <<api_key, arrests_pdf, incidents, offender_count,
                   sex_offender_data, prompt, analysis, stats, html, output,
                   exit_code, net, failures, template, reply, today>>
    /\ UNCHANGED <<catVars, tblVars>>

(* Line 394: get_offender_count returns len(results), or None when the     *)
(* query raised.                                                           *)
Registry ==
    /\ pc = "registry"
    /\ \E result \in {None} \cup {PyInt(n) : n \in 0..MaxCount} :
        /\ offender_count' = result
        /\ failures' = IF result = None THEN failures \cup {"registry"}
                       ELSE failures
    /\ net' = Append(net, "GET registry")
    /\ trace' = Append(trace, "registry")
    /\ pc' = "registry_stats"
    /\ UNCHANGED <<api_key, arrests_pdf, arrests, incidents,
                   sex_offender_data, prompt, analysis, stats, html, output,
                   exit_code, template, reply, today>>
    /\ UNCHANGED <<catVars, tblVars>>

(* (x / POPULATION) * 1000 as an exact fraction; dividing None raises.     *)
per_1000(x) ==
    IF x.t = "int"
    THEN [t |-> "float", num |-> x.v * 1000, den |-> POPULATION]
    ELSE [t |-> "TypeError"]

(* Lines 396-399.                                                          *)
registry_stats(count) ==
    [total |-> PyOr(count, PyInt(23)),
     per_1000 |-> per_1000(PyOr(count, PyInt(23)))]

BuildRegistryStats ==
    /\ pc = "registry_stats"
    /\ LET d == registry_stats(offender_count)
       IN  IF d.per_1000.t = "TypeError"
           THEN Uncaught /\ UNCHANGED sex_offender_data
           ELSE /\ sex_offender_data' = d
                /\ pc' = "generate"
                /\ UNCHANGED exit_code
    /\ UNCHANGED <<api_key, arrests_pdf, arrests, incidents, offender_count,
                   prompt, analysis, stats, html, output, net, trace,
                   failures, template, reply, today>>
    /\ UNCHANGED <<catVars, tblVars>>

(* Lines 263-302: generate_dashboard(crime_data, sex_offender_data, ...).  *)
(* Reading the template and opening the output file are not guarded: a     *)
(* failure of either propagates out of main.                               *)
GenerateDashboard ==
    /\ pc = "generate"
    /\ \E tpl \in {None} \cup {PyStr(t) : t \in Templates},
          rep \in Replies, now \in Dates, can_write \in BOOLEAN :
        LET crime_data == [arrests |-> arrests, incidents |-> incidents]
            a == analyze_crime_data(Get(crime_data, "arrests", <<>>),
                                    Get(crime_data, "incidents", <<>>), rep)
            st == calculate_stats(crime_data)
        IN  IF tpl = None
            THEN /\ Uncaught
                 /\ failures' = failures \cup {"template"}
                 /\ UNCHANGED <<prompt, analysis, stats, html, output, net,
                                trace, template, reply, today>>
            ELSE /\ template' = tpl
                 /\ reply' = rep
                 /\ today' = now
                 /\ net' = Append(net, "POST messages")
                 /\ prompt' = build_prompt(arrests, incidents)
                 /\ analysis' = a
                 /\ stats' = st
                 /\ html' = render(tpl.v, st, sex_offender_data, a,
                                   crime_data, now)
                 /\ trace' = trace \o <<"narrative", "aggregator", "renderer">>
                 /\ IF can_write
                    THEN /\ output' = PyStr(html')
                         /\ pc' = "generated"
                         /\ failures' = IF rep = None
                                        THEN failures \cup {"narrative"}
                                        ELSE failures
                         /\ UNCHANGED exit_code
                    ELSE /\ Uncaught
                         /\ failures' = (IF rep = None
                                         THEN failures \cup {"narrative"}
                                         ELSE failures) \cup {"write"}
                         /\ UNCHANGED output
    /\ UNCHANGED <<api_key, arrests_pdf, arrests, incidents, offender_count,
                   sex_offender_data>>
    /\ UNCHANGED <<catVars, tblVars>>

(* Lines 418-420 and the return from main: status 0.                       *)
Finish ==
    /\ pc = "generated"
    /\ pc' = "exited"
    /\ exit_code' = PyInt(0)
    /\ UNCHANGED <<api_key, arrests_pdf, arrests, incidents, offender_count,
                   sex_offender_data, prompt, analysis, stats, html, output,
                   net, trace, failures, template, reply, today>>
    /\ UNCHANGED <<catVars, tblVars>>

Next ==
    \/ Start
    \/ Download
    \/ ParseArrests
    \/ ScrapeIncidents
    \/ Categorize
    \/ Registry
    \/ BuildRegistryStats
    \/ GenerateDashboard
    \/ Finish

Spec == Init /\ [][Next]_vars

-----------------------------------------------------------------------------
(* generate_dashboard called on its own, with any crime_data and           *)
(* sex_offender_data a caller may pass: records with or without the        *)
(* category key, with structured or stub incidents.                        *)

DashArrests ==
    {[charge |-> "Assault 2nd"],
     [date |-> "3/2", name |-> "JANE", city |-> "ROE",
      charge |-> "Huntsville DOMESTIC VIOLENCE 3RD", category |-> "violent"],
     [date |-> "3/5", name |-> "ANN", city |-> "LEE",
      charge |-> "Theft of sign {{DATE}}", category |-> "property"]}

DashIncidents ==
    {[date |-> "3/4", type |-> "Theft", location |-> "Hwy 72"],
     [raw |-> "03/05 Assault Main St Closed", parsed |-> FALSE]}

DashRegistry == {NoDict, registry_stats(PyInt(7))}

mainIdle ==
    /\ arrests_pdf = None
    /\ offender_count = None
    /\ prompt = None
    /\ analysis = ""
    /\ stats = None
    /\ html = ""
    /\ output = None
    /\ exit_code = None
    /\ net = <<>>
    /\ trace = <<>>
    /\ failures = {}
    /\ template = None
    /\ reply = None
    /\ today = None

DashInit ==
    /\ pc = "generate"
    /\ api_key = PyStr("sk-ant-test")
    /\ arrests \in Lists(DashArrests, MaxDashArrests)
    /\ incidents \in Lists(DashIncidents, MaxIncidents)
    /\ sex_offender_data \in DashRegistry
    /\ mainIdle
    /\ catIdle
    /\ tblIdle

DashNext == GenerateDashboard

SpecDash == DashInit /\ [][DashNext]_vars

-----------------------------------------------------------------------------
(* categorize_crime called on its own.                                     *)

CatSpecInit ==
    /\ CatInit
    /\ pc = "idle"
    /\ api_key = None
    /\ arrests = <<>>
    /\ incidents = <<>>
    /\ sex_offender_data = NoDict
    /\ mainIdle
    /\ tblIdle

CatNext == CatCall /\ UNCHANGED <<mainVars, tblVars>>

SpecCat == CatSpecInit /\ [][CatNext]_vars

-----------------------------------------------------------------------------
(* The two table generators called on their own, on lists that grow one    *)
(* record at a time.                                                       *)

TblArrests ==
    {[date |-> "3/1", name |-> "JOHN", city |-> "DOE",
      charge |-> "Madison Burglary 3rd", category |-> "property"],
     [date |-> "3/3", name |-> "SAM", city |-> "POE",
      charge |-> "Athens DUI", category |-> "other"]}

TblIncidents ==
    {[date |-> "3/4", type |-> "Theft", location |-> "Hwy 72"],
     [raw |-> "03/05 Assault Main St Closed", parsed |-> FALSE]}

TblInit ==
    /\ tbl_kind \in {"arrests", "incidents"}
    /\ tbl_in = <<>>
    /\ tbl_out = ""
    /\ pc = "idle"
    /\ api_key = None
    /\ arrests = <<>>
    /\ incidents = <<>>
    /\ sex_offender_data = NoDict
    /\ mainIdle
    /\ catIdle

TblAppend ==
    /\ Len(tbl_in) < MaxRows
    /\ \E r \in (IF tbl_kind = "arrests" THEN TblArrests ELSE TblIncidents) :
        tbl_in' = Append(tbl_in, r)
    /\ tbl_out' = ""
    /\ UNCHANGED tbl_kind
    /\ UNCHANGED <<mainVars, catVars>>

TblCall ==
    /\ tbl_out = ""
    /\ tbl_out' = IF tbl_kind = "arrests"
                  THEN generate_arrests_table(tbl_in)
                  ELSE generate_incidents_table(tbl_in)
    /\ UNCHANGED <<tbl_kind, tbl_in>>
    /\ UNCHANGED <<mainVars, catVars>>

TblNext == TblAppend \/ TblCall

SpecTable == TblInit /\ [][TblNext]_vars

-----------------------------------------------------------------------------
(* Properties.                                                             *)

Started == {"generate", "generated", "exited"}

(* Reading a document back: tokens, delimited text, table cells.           *)
HasToken(s) ==
    \E i \in Occurrences(s, "{{") : \E j \in Occurrences(s, "}}") : j >= i + 2

Between(s, pre, post) ==
    LET a == Min(Occurrences(s, pre)) + Len(pre)
        b == Min({j \in Occurrences(s, post) : j >= a})
    IN  SubSeq(s, a, b - 1)

RECURSIVE Ascending(_)
Ascending(S) ==
    IF S = {} THEN <<>> ELSE <<Min(S)>> \o Ascending(S \ {Min(S)})

CellTexts(s) ==
    LET opens == Ascending(Occurrences(s, "<td>"))
        closes == Occurrences(s, "</td>")
    IN  [k \in DOMAIN opens |->
           SubSeq(s, opens[k] + 4, Min({c \in closes : c > opens[k]}) - 1)]

RowCount(s) == Cardinality(Occurrences(s, "<tr>"))

(* A keyword occurs in s, letter case ignored, compared position by        *)
(* position.                                                               *)
SameLetter(a, b) ==
    \/ a = b
    \/ a \in DOMAIN UpperToLower /\ UpperToLower[a] = b

OccursIn(kw, s) ==
    \E i \in 1..(Len(s) - Len(kw) + 1) :
        \A k \in 1..Len(kw) :
            SameLetter(SubSeq(s, i + k - 1, i + k - 1), SubSeq(kw, k, k))

Mentions(keywords, s) == \E i \in DOMAIN keywords : OccursIn(keywords[i], s)

(* One left-to-right pass over a template that puts values[k] where        *)
(* tokens[k] stands and never looks inside a value it has placed.          *)
RECURSIVE SinglePass(_, _, _, _)
SinglePass(tpl, tokens, values, from) ==
    LET occ == [k \in DOMAIN tokens |-> Occurrences(tpl, tokens[k])]
        at == {i \in UNION {occ[k] : k \in DOMAIN tokens} : i >= from}
    IN  IF at = {} THEN SubSeq(tpl, from, Len(tpl))
        ELSE LET i == Min(at)
                 k == CHOOSE k \in DOMAIN tokens : i \in occ[k]
             IN  SubSeq(tpl, from, i - 1) \o values[k]
                     \o SinglePass(tpl, tokens, values, i + Len(tokens[k]))

SubstitutedValues ==
    <<strftime(today), StrInt(stats.total_incidents),
      StrInt(stats.total_arrests), StrInt(stats.property_crime),
      StrInt(stats.violent_crime), stats.change_percent,
      PyStrOf(Get(sex_offender_data, "total", PyInt(23))),
      format_analysis_html(analysis),
      generate_incidents_table(incidents),
      generate_arrests_table(arrests)>>

(* C1: when the API credential is absent or empty, main goes from its      *)
(* start straight to termination with exit code 1: no stage has run, no    *)
(* network request was issued and no report was written.                   *)
C1_MissingCredentialIsFatal ==
    ~Truthy(api_key) =>
        /\ pc \in {"start", "exited"}
        /\ net = <<>>
        /\ trace = <<>>
        /\ output = None
        /\ exit_code = IF pc = "exited" THEN PyInt(1) ELSE None

C1_Witness ==
    /\ api_key = PyStr("")
    /\ pc = "exited"
    /\ exit_code = PyInt(1)

ExpectedTrace ==
    <<"fetcher">>
    \o (IF "fetch" \in failures THEN <<>> ELSE <<"arrest_extractor">>)
    \o <<"incident_extractor", "categorizer", "registry",
         "narrative", "aggregator", "renderer">>

IsPrefix(a, b) == Len(a) <= Len(b) /\ SubSeq(b, 1, Len(a)) = a

(* C2: with the credential present, whichever of the arrest-PDF fetch, the *)
(* arrest extraction, the incident scrape, the registry query and the      *)
(* narrative call fail, the run is not aborted: the stages run in pipeline *)
(* order, the report is written and the exit code is 0.  (The template and *)
(* output files are not among those stages; a run ends with code 1 only    *)
(* when one of the two cannot be opened.)                                  *)
C2_BestEffortContinue ==
    Truthy(api_key) =>
        /\ IsPrefix(trace, ExpectedTrace)
        /\ (pc = "exited" /\ failures \cap {"template", "write"} = {}) =>
               /\ exit_code = PyInt(0)
               /\ trace = ExpectedTrace
               /\ output = PyStr(html)
        /\ exit_code = PyInt(1) => failures \cap {"template", "write"} # {}

C2_Witness ==
    /\ pc = "exited"
    /\ exit_code = PyInt(0)
    /\ failures = {"fetch", "scrape", "registry", "narrative"}
    /\ output = PyStr(html)

(* C3: categorize_crime returns exactly one of violent, property, other:   *)
(* violent whenever the charge mentions a violent keyword in any letter    *)
(* case (also when it mentions a property keyword too), property when it   *)
(* mentions a property keyword and no violent one, other when neither.     *)
C3_CategorizerTotalWithPrecedence ==
    category # "idle" /\ category # "unset" =>
        /\ category \in {"violent", "property", "other"}
        /\ category = "violent" <=> Mentions(violent_keywords, charge)
        /\ category = "property" <=>
               /\ Mentions(property_keywords, charge)
               /\ ~Mentions(violent_keywords, charge)
        /\ category = "other" <=>
               /\ ~Mentions(property_keywords, charge)
               /\ ~Mentions(violent_keywords, charge)

C3_Witness ==
    /\ category = "violent"
    /\ Mentions(property_keywords, charge)
    /\ Mentions(violent_keywords, charge)

(* C4: calculate_stats reports the number of incidents, or 12 when there   *)
(* are none; the number of arrests, or 5 when there are none; the number   *)
(* of arrests whose charge is violent, respectively property; and 8 as the *)
(* change percent.                                                         *)
C4_StatsWithFallbacks ==
    stats # None =>
        LET Violent(a) == Mentions(violent_keywords, Get(a, "charge", ""))
            Property(a) == /\ Mentions(property_keywords, Get(a, "charge", ""))
                           /\ ~Violent(a)
        IN  /\ stats.total_incidents =
                   IF Len(incidents) = 0 THEN 12 ELSE Len(incidents)
            /\ stats.total_arrests =
                   IF Len(arrests) = 0 THEN 5 ELSE Len(arrests)
            /\ stats.violent_crime =
                   Cardinality({i \in DOMAIN arrests : Violent(arrests[i])})
            /\ stats.property_crime =
                   Cardinality({i \in DOMAIN arrests : Property(arrests[i])})
            /\ Len(arrests) = 0 =>
                   stats.violent_crime = 0 /\ stats.property_crime = 0
            /\ stats.change_percent = "8"

C4_Witness ==
    /\ stats # None
    /\ arrests = <<>>
    /\ incidents = <<>>
    /\ stats.total_arrests = 5
    /\ stats.total_incidents = 12

(* C5: when the registry query failed, the registry stats built in main    *)
(* have total 23 and a defined per-1000 rate equal to 23/56000*1000, and   *)
(* the written report shows 23 where SEX_OFFENDER_COUNT stood.             *)
C5_RegistryFailureFallback ==
    (pc \in Started /\ "registry" \in failures) =>
        LET rate == Get(sex_offender_data, "per_1000", None)
        IN  /\ offender_count = None
            /\ Get(sex_offender_data, "total", None) = PyInt(23)
            /\ rate.t = "float"
            /\ rate.den # 0
            /\ rate.num * 56000 = 23 * 1000 * rate.den
            /\ output # None => Contains(output.v, "<p id='so'>23</p>")

C5_Witness ==
    /\ "registry" \in failures
    /\ output # None
    /\ Contains(output.v, "<p id='so'>23</p>")

(* C6: a registry query that succeeds and counts zero entries yields       *)
(* registry stats that differ from those of a failed query: the total is   *)
(* 0, not the fallback 23, and the report shows 0.                         *)
C6_ZeroCountIsNotFailure ==
    (pc \in Started /\ offender_count = PyInt(0)) =>
        /\ sex_offender_data # registry_stats(None)
        /\ Get(sex_offender_data, "total", None) = PyInt(0)
        /\ output # None => Contains(output.v, "<p id='so'>0</p>")

(* C7: for a template with each of the ten placeholders exactly once, the  *)
(* written document holds no {{...}} token and is the template with each   *)
(* placeholder exchanged for its value, the values themselves untouched.   *)
C7_RenderLeavesNoToken ==
    output # None =>
        /\ ~HasToken(output.v)
        /\ output.v = SinglePass(template.v, Placeholders, SubstitutedValues, 1)

(* C8: for n >= 1 records a table generator emits min(n, 10) rows, the     *)
(* rows of the first min(n, 10) records in input order; a record after     *)
(* the tenth leaves nothing in the table.                                  *)
ArrestCells(a) ==
    <<Get(a, "date", "N/A"), Get(a, "name", "N/A"), Get(a, "city", "N/A"),
      Get(a, "charge", "N/A")>>

IncidentCells(inc) ==
    <<Get(inc, "date", "N/A"), Get(inc, "type", "N/A"),
      Get(inc, "location", "N/A"),
      "<span class=\"badge badge-yellow\">Investigating</span>">>

CellsOf(kind, r) == IF kind = "arrests" THEN ArrestCells(r) ELSE IncidentCells(r)

C8_TableShowsFirstTen ==
    (tbl_out # "" /\ Len(tbl_in) >= 1) =>
        LET n == Len(tbl_in)
            shown == IF n < 10 THEN n ELSE 10
            cells == CellTexts(tbl_out)
        IN  /\ RowCount(tbl_out) = shown
            /\ Len(cells) = 4 * shown
            /\ \A i \in 1..shown :
                   SubSeq(cells, 4 * i - 3, 4 * i) = CellsOf(tbl_kind, tbl_in[i])
            /\ \A i \in 11..n :
                   (\A j \in 1..10 : tbl_in[j] # tbl_in[i]) =>
                       \A k \in 1..3 :
                           ~Contains(tbl_out, CellsOf(tbl_kind, tbl_in[i])[k])

C8_Witness ==
    /\ tbl_kind = "arrests"
    /\ Len(tbl_in) = 11
    /\ \A j \in 1..10 : tbl_in[j] # tbl_in[11]
    /\ RowCount(tbl_out) = 10

(* C9: when the narrative service fails, the narrative is the fallback     *)
(* text and the counts written in it are the statistics of the same run:   *)
(* its violent count is violent_crime, its incident count total_incidents. *)
C9_FallbackCountsMatchStats ==
    (pc = "generated" /\ reply = None) =>
        /\ analysis = fallback_analysis(stats.total_incidents, stats.violent_crime)
        /\ Between(analysis, "All ", " violent incidents")
               = StrInt(stats.violent_crime)
        /\ Between(analysis, "With ", " incidents for")
               = StrInt(stats.total_incidents)

(* C10: within one generate_dashboard run the total-arrests figure of the  *)
(* narrative prompt is the total_arrests the statistics report.            *)
C10_PromptArrestsMatchStats ==
    pc = "generated" =>
        prompt.total_arrests = stats.total_arrests

====
